---- MODULE Spec2Model ----
(***************************************************************************)
(* PantryChef AI backend (backend/main.py): the pantry table, the CRUD     *)
(* routes and the recipe-generation route, as a state machine.             *)
(*                                                                         *)
(* Dates are day numbers.  An optional date is a sequence: <<>> is None,   *)
(* <<d>> is the date d.  The names joined into a prompt section are kept   *)
(* as the sequence of names that ', '.join receives.                       *)
(***************************************************************************)
EXTENDS Integers, Sequences, FiniteSets

\* ---------------------------------------------------------------- bounds
MaxId == 2          \* ids the store hands out are 1..MaxId
MaxToday == 3       \* the clock runs over days 0..MaxToday
NearDate == 1       \* an expiry date early in the clock's range
FarDate == 6        \* an expiry date past the clock's range

Names == {"Eggs", "Rice"}
ExpiryDates == {NearDate, FarDate}
Ids == 1..MaxId

\* The JSON bodies a client posts to /api/pantry/: name and expiry_date are
\* each absent (<<>>) or present, and a name that is present may be the
\* empty text.
Bodies ==
    [name : {<<>>} \cup {<<n>> : n \in Names \cup {""}},
     expiry_date : {<<>>} \cup {<<d>> : d \in ExpiryDates}]

\* What the text-generation service does with one request: it raises, or it
\* answers with a message whose content is None (<<>>) or text.
ServiceOutcomes ==
    [raised : {<<"APIConnectionError">>, <<"RateLimitError">>}, content : {<<>>}]
        \cup [raised : {<<>>}, content : {<<>>, <<"# Omelette">>}]

VARIABLES
    items,      \* the pantry_items table: a set of rows [id, name, expiry_date]
    today,      \* the date datetime.now().date() last returned
    pc,         \* "idle": the event loop is free; "calling": generate_recipe
                \* is inside client.chat.completions.create
    req,        \* the request being handled, or the one last handled
    gen,        \* generate_recipe's locals for that request
    extCalls,   \* calls of the text-generation service made by that request
    outcome,    \* what the service did with the call: <<>> while it has not
                \* answered, else <<o>> with o in ServiceOutcomes
    resp        \* the response to that request (status 0: none yet)

vars == <<items, today, pc, req, gen, extCalls, outcome, resp>>

\* ------------------------------------------------------------- helpers
Range(s) == {s[i] : i \in 1..Len(s)}

\* db.query(PantryItem).all(): all rows, in an order SQL leaves open.
query_all(table) ==
    {s \in [1..Cardinality(table) -> table] : Range(s) = table}

NoBody == [name |-> <<>>, expiry_date |-> <<>>]

Request(route, body, item_id) ==
    [route |-> route, body |-> body, item_id |-> item_id]

NoRecipe ==
    [recipe |-> <<>>, expiring_items |-> <<>>, total_items |-> 0, items_used |-> 0]

NoPrompt ==
    [framing |-> "none", must_use |-> <<>>, also_available |-> <<>>,
     available |-> <<>>]

NoGen ==
    [rows |-> <<>>, today |-> 0, expiring_soon |-> <<>>,
     all_ingredients |-> <<>>, prompt |-> NoPrompt]

Response(status, detail, body, recipe) ==
    [status |-> status, detail |-> detail, body |-> body, recipe |-> recipe]

\* The event loop runs one `async def` handler at a time, and a handler that
\* never awaits keeps it until it returns.
loop_free == pc = "idle"

Init ==
    /\ items = {}
    /\ today = 0
    /\ pc = "idle"
    /\ req = Request("none", NoBody, 0)
    /\ gen = NoGen
    /\ extCalls = 0
    /\ outcome = <<>>
    /\ resp = Response(0, <<>>, <<>>, NoRecipe)

\* ------------------------------------------------- the request model
\* schemas.PantryItemCreate: the request body is accepted when it carries a
\* name that is non-empty text.
PantryItemCreate_valid(body) ==
    /\ body.name # <<>>
    /\ body.name[1] # ""

\* schemas.PantryItemCreate: the parsed fields; expiry_date defaults to None.
PantryItemCreate(body) ==
    [name |-> IF body.name = <<>> THEN "" ELSE body.name[1],
     expiry_date |-> body.expiry_date]

\* Mutant: the handler takes the body unvalidated.
request_rejected_never(body) == FALSE

\* FastAPI validates the declared body parameter before the handler runs and
\* answers a body that fails with its default validation error.
request_rejected(body) == ~PantryItemCreate_valid(body)

\* The store's primary key: an id no stored row carries.
fresh_ids(table) == Ids \ {r.id : r \in table}

\* Mutant: the row is built without the expiry date.
new_row_no_expiry(id, item) ==
    [id |-> id, name |-> item.name, expiry_date |-> <<>>]

\* PantryItem(name=item.name, expiry_date=item.expiry_date), with the id the
\* store assigned on commit.
new_row(id, item) ==
    [id |-> id, name |-> item.name, expiry_date |-> item.expiry_date]

\* ------------------------------------------------------ POST /api/pantry/
add_pantry_item(body) ==
    /\ loop_free
    /\ req' = Request("add", body, 0)
    /\ IF request_rejected(body)
          THEN /\ items' = items
               /\ resp' = Response(422, <<"validation error">>, <<>>, NoRecipe)
          ELSE \E id \in fresh_ids(items) :
                  LET db_item == new_row(id, PantryItemCreate(body))
                  IN  /\ items' = items \cup {db_item}
                      /\ resp' = Response(200, <<>>, <<db_item>>, NoRecipe)
    /\ gen' = NoGen
    /\ extCalls' = 0
    /\ outcome' = <<>>
    /\ UNCHANGED <<today, pc>>

\* ------------------------------------------------------- GET /api/pantry/
get_pantry_items ==
    /\ loop_free
    /\ req' = Request("list", NoBody, 0)
    /\ \E rows \in query_all(items) :
          resp' = Response(200, <<>>, rows, NoRecipe)
    /\ gen' = NoGen
    /\ extCalls' = 0
    /\ outcome' = <<>>
    /\ UNCHANGED <<items, today, pc>>

\* ---------------------------------------------- DELETE /api/pantry/{id}
\* Mutant: first() of the unfiltered query.
find_by_id_any(table, item_id) ==
    IF table = {} THEN {} ELSE {CHOOSE r \in table : TRUE}

\* db.query(PantryItem).filter(PantryItem.id == item_id).first(): the rows
\* found, none or one of them being the item.
find_by_id(table, item_id) == {r \in table : r.id = item_id}

delete_pantry_item(item_id) ==
    /\ loop_free
    /\ req' = Request("delete", NoBody, item_id)
    /\ IF find_by_id(items, item_id) = {}
          THEN /\ items' = items
               /\ resp' = Response(404, <<"Item not found">>, <<>>, NoRecipe)
          ELSE \E item \in find_by_id(items, item_id) :
                  /\ items' = items \ {item}
                  /\ resp' = Response(200, <<"Item deleted successfully">>,
                                      <<>>, NoRecipe)
    /\ gen' = NoGen
    /\ extCalls' = 0
    /\ outcome' = <<>>
    /\ UNCHANGED <<today, pc>>

\* ---------------------------------------------------- DELETE /api/pantry/
\* Mutant: the bulk delete spares the rows that carry no expiry date.
delete_all_dated(table) == {r \in table : r.expiry_date = <<>>}

\* db.query(PantryItem).delete(): the rows left in the table.
delete_all(table) == {}

clear_pantry ==
    /\ loop_free
    /\ req' = Request("clear", NoBody, 0)
    /\ items' = delete_all(items)
    /\ resp' = Response(200, <<"Pantry cleared">>, <<>>, NoRecipe)
    /\ gen' = NoGen
    /\ extCalls' = 0
    /\ outcome' = <<>>
    /\ UNCHANGED <<today, pc>>

\* ------------------------------------------------------------ GET /health
health_check ==
    /\ loop_free
    /\ req' = Request("health", NoBody, 0)
    /\ resp' = Response(200, <<"PantryChef AI is running!">>, <<>>, NoRecipe)
    /\ gen' = NoGen
    /\ extCalls' = 0
    /\ outcome' = <<>>
    /\ UNCHANGED <<items, today, pc>>

\* ------------------------------------------- POST /api/generate-recipe/
\* Mutant: the empty-pantry check is gone.
pantry_is_empty_never(rows) == FALSE

\* `if not items`
pantry_is_empty(rows) == rows = <<>>

\* (item.expiry_date - today).days
days_left(item, t) == item.expiry_date[1] - t

\* Mutant: the threshold is exclusive.
is_expiring_strict(item, t) ==
    /\ item.expiry_date # <<>>
    /\ item.expiry_date[1] - t < 3

\* `if item.expiry_date:` and `if days_left <= 3:`
is_expiring(item, t) ==
    /\ item.expiry_date # <<>>
    /\ days_left(item, t) <= 3

\* The loop over the rows read: expiring_soon after the first k rows.
RECURSIVE scan_expiring(_, _, _)
scan_expiring(rows, t, k) ==
    IF k = 0
       THEN <<>>
       ELSE LET sofar == scan_expiring(rows, t, k - 1)
            IN  IF is_expiring(rows[k], t)
                   THEN Append(sofar, rows[k].name)
                   ELSE sofar

\* The loop over the rows read: all_ingredients.
all_names(rows) == [k \in 1..Len(rows) |-> rows[k].name]

\* i for i in all_ingredients if i not in expiring_soon
others(all_ingredients, expiring_soon) ==
    SelectSeq(all_ingredients, LAMBDA i : i \notin Range(expiring_soon))

\* The two prompt templates, as the sections each one lists.
build_prompt(all_ingredients, expiring_soon) ==
    IF expiring_soon # <<>>
       THEN [framing |-> "must_use",
             must_use |-> expiring_soon,
             also_available |-> others(all_ingredients, expiring_soon),
             available |-> <<>>]
       ELSE [framing |-> "available",
             must_use |-> <<>>,
             also_available |-> <<>>,
             available |-> all_ingredients]

\* Mutant: the fallback to the total is gone.
items_used_expiring_only(all_ingredients, expiring_soon) == Len(expiring_soon)

\* len(expiring_soon) if expiring_soon else len(all_ingredients)
items_used(all_ingredients, expiring_soon) ==
    IF expiring_soon # <<>> THEN Len(expiring_soon) ELSE Len(all_ingredients)

\* markdown.markdown(recipe_text)
markdown(recipe_text) == <<"<html>", recipe_text>>

\* str(e) of the exception the try block raised: the one the service call
\* raised, or the one markdown.markdown raises on a content of None.
raised_by_try(o) ==
    IF o.raised # <<>>
       THEN o.raised
       ELSE IF o.content = <<>>
               THEN <<"'NoneType' object has no attribute 'strip'">>
               ELSE <<>>

\* Mutant: the detail leaves the exception out.
failure_detail_generic(e) == <<"Failed to generate recipe">>

\* detail=f"Failed to generate recipe: {str(e)}"
failure_detail(e) == <<"Failed to generate recipe: ", e>>

\* The handler up to the point where the service call is issued.
generate_recipe_begin(rows, t) ==
    /\ loop_free
    /\ rows \in query_all(items)
    /\ req' = Request("generate", NoBody, 0)
    /\ outcome' = <<>>
    /\ IF pantry_is_empty(rows)
          THEN /\ t = today
               /\ today' = today
               /\ gen' = NoGen
               /\ extCalls' = 0
               /\ pc' = "idle"
               /\ resp' = Response(400,
                     <<"Pantry is empty. Please add some ingredients first!">>,
                     <<>>, NoRecipe)
          ELSE LET all_ingredients == all_names(rows)
                   expiring_soon == scan_expiring(rows, t, Len(rows))
               IN  /\ today' = t
                   /\ gen' = [rows |-> rows, today |-> t,
                              expiring_soon |-> expiring_soon,
                              all_ingredients |-> all_ingredients,
                              prompt |-> build_prompt(all_ingredients,
                                                      expiring_soon)]
                   /\ extCalls' = 1
                   /\ pc' = "calling"
                   /\ resp' = Response(0, <<>>, <<>>, NoRecipe)
    /\ UNCHANGED items

\* The handler from the return of the service call to its response.
generate_recipe_end(o) ==
    /\ pc = "calling"
    /\ pc' = "idle"
    /\ outcome' = <<o>>
    /\ LET e == raised_by_try(o)
       IN  IF e # <<>>
              THEN resp' = Response(500, failure_detail(e[1]), <<>>, NoRecipe)
              ELSE resp' = Response(200, <<>>, <<>>,
                     [recipe |-> markdown(o.content[1]),
                      expiring_items |-> gen.expiring_soon,
                      total_items |-> Len(gen.all_ingredients),
                      items_used |-> items_used(gen.all_ingredients,
                                                gen.expiring_soon)])
    /\ UNCHANGED <<items, today, req, gen, extCalls>>

\* ------------------------------------------------------- specification
Next ==
    \/ \E body \in Bodies : add_pantry_item(body)
    \/ get_pantry_items
    \/ \E item_id \in Ids : delete_pantry_item(item_id)
    \/ clear_pantry
    \/ health_check
    \/ \E rows \in query_all(items), t \in today..MaxToday :
          generate_recipe_begin(rows, t)
    \/ \E o \in ServiceOutcomes : generate_recipe_end(o)

Spec == Init /\ [][Next]_vars

\* ---------------------------------------------------------- properties
\* A step in which a handler of the given route starts on a free loop.  Any
\* such step that changes the state is a step of that route's handler.
Handles(route) == pc = "idle" /\ req'.route = route

Ids_of(table) == {r.id : r \in table}

\* C1: a generate-recipe request on an empty pantry is answered 400 in the
\* same step, with no call of the text-generation service; and whenever a
\* step calls the service, the request read a non-empty list of rows, which
\* are the rows of the table.
C1_EmptyPantryNoCall ==
    [][ /\ (Handles("generate") /\ items = {}) =>
              (resp'.status = 400 /\ extCalls' = 0 /\ pc' = "idle")
        /\ (pc' = "calling" \/ extCalls' > extCalls) =>
              (/\ req'.route = "generate"
               /\ items # {}
               /\ gen'.rows # <<>>
               /\ Range(gen'.rows) = items) ]_vars

C1_Witness ==
    /\ req.route = "generate"
    /\ resp.status = 400
    /\ items = {}
    /\ extCalls = 0

\* C2: expiring_soon holds, in the order the rows were read, the name of
\* each row read that has an expiry date at most 3 days after the date read
\* (earlier dates included) and of no other row; a successful response
\* returns it as expiring_items.
C2_ExpiringSoon ==
    req.route = "generate" =>
        LET rows == gen.rows
            hits == {i \in 1..Len(rows) :
                        /\ rows[i].expiry_date # <<>>
                        /\ rows[i].expiry_date[1] - gen.today <= 3}
        IN  /\ Len(gen.expiring_soon) = Cardinality(hits)
            /\ \A i \in hits :
                  gen.expiring_soon[Cardinality({j \in hits : j <= i})]
                      = rows[i].name
            /\ resp.status = 200 =>
                  resp.recipe.expiring_items = gen.expiring_soon

C2_Witness ==
    /\ req.route = "generate"
    /\ resp.status = 200
    /\ Len(gen.rows) = 2
    /\ Len(gen.expiring_soon) = 1
    /\ \E i \in 1..2 :
          /\ gen.rows[i].expiry_date # <<>>
          /\ gen.rows[i].expiry_date[1] < gen.today
    /\ \E i \in 1..2 :
          /\ gen.rows[i].expiry_date # <<>>
          /\ gen.rows[i].expiry_date[1] - gen.today > 3

\* C3: when expiring_soon is non-empty, every row read is listed in exactly
\* one of the prompt's two sections: the sections' lengths add up to the
\* number of rows.
C3_Partition ==
    (req.route = "generate" /\ gen.expiring_soon # <<>>) =>
        Len(gen.prompt.must_use) + Len(gen.prompt.also_available)
            = Len(gen.rows)

\* C4: a successful response has total_items the number of rows read and
\* items_used the number of expiring names, or total_items when there is
\* none, so 1 <= items_used <= total_items; and when no row read is within
\* 3 days of expiry the prompt sent is the one without the MUST USE section.
C4_Counts ==
    (req.route = "generate" /\ resp.status = 200) =>
        LET r == resp.recipe
            near == {i \in 1..Len(gen.rows) :
                        /\ gen.rows[i].expiry_date # <<>>
                        /\ gen.rows[i].expiry_date[1] - gen.today <= 3}
        IN  /\ r.total_items = Len(gen.rows)
            /\ r.items_used = IF near # {} THEN Cardinality(near)
                                           ELSE r.total_items
            /\ 1 <= r.items_used
            /\ r.items_used <= r.total_items
            /\ near = {} =>
                  /\ gen.prompt.framing = "available"
                  /\ gen.prompt.must_use = <<>>
                  /\ gen.prompt.available
                        = [i \in 1..Len(gen.rows) |-> gen.rows[i].name]
            /\ near # {} => gen.prompt.framing = "must_use"

C4_Witness ==
    /\ req.route = "generate"
    /\ resp.status = 200
    /\ gen.expiring_soon = <<>>
    /\ resp.recipe.total_items = 2
    /\ resp.recipe.items_used = 2
    /\ \E i \in 1..2 : gen.rows[i].expiry_date # <<>>

C6_DeleteById ==
    [][ /\ Handles("delete") =>
              IF req'.item_id \notin Ids_of(items)
                 THEN resp'.status = 404 /\ items' = items
                 ELSE /\ resp'.status = 200
                      /\ req'.item_id \notin Ids_of(items')
                      /\ \E r \in items :
                            r.id = req'.item_id /\ items' = items \ {r}
                      /\ Cardinality(items') = Cardinality(items) - 1
        /\ req'.route # "add" => Ids_of(items') \subseteq Ids_of(items)
        /\ Handles("list") =>
              (resp'.status = 200 /\ Range(resp'.body) = items) ]_vars

C6_Witness ==
    /\ req.route = "delete"
    /\ resp.status = 200
    /\ req.item_id \notin Ids_of(items)
    /\ Cardinality(items) = 1

\* C7: a successful add leaves the table holding the rows it held plus one
\* new row, which carries the posted name and expiry date (None when the
\* body has none) and an id no other row carries; in every state no two rows
\* share an id and every row has a name.
C7_AddItem ==
    /\ [](\A r1, r2 \in items : r1.id = r2.id => r1 = r2)
    /\ [](\A r \in items : r.name \in Names)
    /\ [][ (Handles("add") /\ resp'.status = 200) =>
              LET db_item == resp'.body[1]
              IN  /\ db_item \notin items
                  /\ items' = items \cup {db_item}
                  /\ Cardinality(items') = Cardinality(items) + 1
                  /\ req'.body.name = <<db_item.name>>
                  /\ db_item.expiry_date = req'.body.expiry_date
                  /\ db_item.id \notin Ids_of(items) ]_vars

C7_Witness ==
    /\ req.route = "add"
    /\ resp.status = 200
    /\ req.body.name = <<"Rice">>
    /\ req.body.expiry_date = <<>>
    /\ Cardinality(items) = 2
    /\ \E r \in items : r.name = "Rice" /\ r.expiry_date = <<>>

C9_ClearAll ==
    [][ /\ Handles("clear") => (resp'.status = 200 /\ items' = {})
        /\ (req.route = "clear" /\ Handles("list")) =>
              (resp'.status = 200 /\ resp'.body = <<>>)
        /\ (req.route = "clear" /\ Handles("generate")) =>
              (resp'.status = 400 /\ extCalls' = 0 /\ pc' = "idle") ]_vars

C9_Witness ==
    /\ req.route = "clear"
    /\ resp.status = 200
    /\ items = {}

\* C10: while generate_recipe's call of the service is outstanding, another
\* request (health, list, add, delete or clear-all) can be handled to
\* completion.
C10_OthersProceed ==
    pc = "calling" =>
        ENABLED (\/ health_check
                 \/ get_pantry_items
                 \/ clear_pantry
                 \/ \E body \in Bodies : add_pantry_item(body)
                 \/ \E item_id \in Ids : delete_pantry_item(item_id))

====
